---------------------------- MODULE Spec2Model ----------------------------
(***************************************************************************)
(* A model of book_scraper.py (WebToEpubConverter): the content slicer,    *)
(* the bilingual restructurer with its paragraph wrapper, the next-page    *)
(* locator, the chapter classifier, the link rewriter and the crawl loop.  *)
(*                                                                         *)
(* A parsed page is a tree of nodes.  A node is a record                   *)
(*   [name, class, text, href, src, attrs, kids]                           *)
(* like a bs4 Tag / NavigableString / Comment:                             *)
(*   name   the tag name, "#text" for a NavigableString, "#comment" for a  *)
(*          Comment, "[document]" for the BeautifulSoup object itself;     *)
(*   class  the class attribute, a sequence of class names (bs4 keeps a    *)
(*          list, and Tag equality compares the lists in order);           *)
(*   text   the string of a "#text" / "#comment" node (WS is a string of   *)
(*          white space only), "" for a tag;                               *)
(*   href   the href attribute (NoHref when absent), see Href below;       *)
(*   src    the src attribute ("" when absent);                            *)
(*   attrs  the other attributes, a set of "key=value" strings;            *)
(*   kids   the contents, a sequence of nodes.                             *)
(* Values are compared structurally, which is what bs4's Tag.__eq__ does.  *)
(* A node's identity is its path from the root of the tree it was parsed   *)
(* into: the sequence of child indices that leads to it.                   *)
(***************************************************************************)
EXTENDS Integers, Sequences, FiniteSets, TLC

VARIABLES
    \* --- _extract_content_slice applied to one page -----------------------
    slice_soup,        \* the page handed to the slicer (content_soup)
    slice_pc,          \* "idle" | "start" | "collected" | "done"
    slice_acc,         \* paths of the rows appended to main_content_accumulator
    slice_removed,     \* paths decomposed by the cleanup pass
    \* --- _restructure_bilingual_content applied to one fragment -----------
    restr_in,          \* content_soup_fragment
    restr_out,         \* structured_content_accumulator
    restr_pc,          \* "idle" | "start" | "done"
    \* --- _wrap_content_in_paragraph applied to one source, twice -----------
    wrap_source,       \* source_tag_or_string
    wrap_target,       \* the children appended to target_tag
    wrap_again,        \* the children appended when the target is wrapped again
    wrap_pc,           \* "idle" | "start" | "wrapped" | "done"
    \* --- _find_next_page_url applied to one page --------------------------
    loc_soup,          \* the original page
    loc_url,           \* current_url
    loc_result,        \* the URL returned (NoUrl for None)
    loc_pc,            \* "idle" | "start" | "done"
    \* --- scrape_book / create_epub ----------------------------------------
    start_url,         \* self.start_url
    debug_mode,        \* self.debug_mode
    pc,                \* position in scrape_book / main
    current_url,       \* scrape_book's current_url (NoUrl for None)
    page_count,        \* scrape_book's page_count
    processed_urls,    \* scrape_book's processed_urls
    soup,              \* the page fetched in this iteration (NoSoup before)
    chapter_data,      \* TRUE when _process_page_content returned a record
    next_url,          \* the next_url _process_page_content returned
    chapters,          \* self.chapters
    epub_nav_chapters, \* self.epub_nav_chapters
    epub_items,        \* all_epub_content_items built by _add_epub_chapters
    image_files,       \* self.image_files: the set of <<full_url, epub_path>>
    font_files,        \* self.font_files: the set of <<full_url, epub_path>>
    temp_files,        \* the file names taken in temp_resource_dir
    css_content,       \* self.css_content: the chunks of the style sheet
    resource_log,      \* history: the calls of _download_resource, in order
    site,              \* the web: the page each URL answers with
    fetched,           \* history: the URLs handed to _get_page_content, in order
    fetch_failed       \* history: the URLs whose fetch failed

sliceVars == <<slice_soup, slice_pc, slice_acc, slice_removed>>
restrVars == <<restr_in, restr_out, restr_pc>>
wrapVars  == <<wrap_source, wrap_target, wrap_again, wrap_pc>>
locVars   == <<loc_soup, loc_url, loc_result, loc_pc>>
resVars   == <<image_files, font_files, temp_files, css_content, resource_log>>
crawlVars == <<site, start_url, debug_mode, resVars, pc, current_url, page_count,
               processed_urls, soup, chapter_data, next_url, chapters,
               epub_nav_chapters, epub_items, fetched, fetch_failed>>
vars == <<sliceVars, restrVars, locVars, crawlVars, wrapVars>>

---------------------------------------------------------------------------
(* Bounds of the model.                                                    *)

\* The most top-level blocks of a page handed to the slicer.
MaxBlocks == 4
\* The most direct children of a fragment handed to the restructurer.
MaxChildren == 4
\* The most links of a page handed to the next-page locator.
MaxLinks == 3

---------------------------------------------------------------------------
(* URLs.  A URL is scheme://netloc + path + ?query + #fragment.  The path  *)
(* is prefix + "/" + kw + "-" + num + "/", where kw is the word that       *)
(* follows the last "/" of the prefix ("" when the path is the prefix      *)
(* alone) and num the digits after it (-1 when there are none).            *)

NoUrl == [origin |-> "", prefix |-> "", kw |-> "", num |-> -1, query |-> "", frag |-> ""]

Url(origin, prefix, kw, num, query, frag) ==
    [origin |-> origin, prefix |-> prefix, kw |-> kw, num |-> num,
     query |-> query, frag |-> frag]

\* An href attribute: "abs" an absolute http(s) URL, "rel" a path relative to
\* the site root ("/book/c2/"), "frag" a bare "#fragment", "data" a data: URI,
\* "none" no href attribute.
Href(form, u) == [form |-> form, u |-> u]
NoHref == Href("none", NoUrl)

---------------------------------------------------------------------------
(* Tree primitives.                                                        *)

WS == " "

Text(t) == [name |-> "#text", class |-> <<>>, text |-> t, href |-> NoHref,
            src |-> "", attrs |-> {}, kids |-> <<>>]

Comm(t) == [name |-> "#comment", class |-> <<>>, text |-> t, href |-> NoHref,
            src |-> "", attrs |-> {}, kids |-> <<>>]

Tag(name, class, kids) ==
    [name |-> name, class |-> class, text |-> "", href |-> NoHref,
     src |-> "", attrs |-> {}, kids |-> kids]

A(href, class, kids) == [Tag("a", class, kids) EXCEPT !.href = href]

Img(src) == [Tag("img", <<>>, <<>>) EXCEPT !.src = src]

Document(kids) == Tag("[document]", <<>>, kids)

NoSoup == Tag("#none", <<>>, <<>>)

NoPath == <<0>>

Range(s) == {s[i] : i \in DOMAIN s}

IsTag(n) == n.name \notin {"#text", "#comment", "#none"}

HasClass(n, c) == \E i \in DOMAIN n.class : n.class[i] = c

\* p is q or an ancestor of q.
IsPrefix(p, q) == Len(p) <= Len(q) /\ \A i \in DOMAIN p : p[i] = q[i]

RECURSIVE NodeAt(_, _)
NodeAt(n, p) == IF p = <<>> THEN n ELSE NodeAt(n.kids[Head(p)], Tail(p))

\* The paths of the proper descendants of n (itself at path p), in document
\* order: what find_all walks.
RECURSIVE Descendants(_, _)
RECURSIVE DescendantsFrom(_, _, _)
Descendants(n, p) == DescendantsFrom(n, p, 1)
DescendantsFrom(n, p, i) ==
    IF i > Len(n.kids) THEN <<>>
    ELSE <<Append(p, i)>> \o Descendants(n.kids[i], Append(p, i))
         \o DescendantsFrom(n, p, i + 1)

\* The proper descendants of n, as values.
Sub(n) == {NodeAt(n, q) : q \in Range(Descendants(n, <<>>))}

\* get_text(strip=True): the stripped strings of n, white-space-only strings
\* and comments left out, in document order.
RECURSIVE GetText(_)
RECURSIVE GetTextFrom(_, _)
GetText(n) ==
    IF n.name = "#text" THEN (IF n.text = WS THEN <<>> ELSE <<n.text>>)
    ELSE IF n.name = "#comment" THEN <<>>
    ELSE GetTextFrom(n.kids, 1)
GetTextFrom(kids, i) ==
    IF i > Len(kids) THEN <<>> ELSE GetText(kids[i]) \o GetTextFrom(kids, i + 1)

\* tag.find('img')
FindImg(n) == \E d \in Sub(n) : d.name = "img"

\* The subtree of soup at path p as it is once the nodes at the paths in gone
\* have been moved or decomposed out of it.
RECURSIVE Prune(_, _, _)
RECURSIVE PruneFrom(_, _, _, _)
Prune(n, p, gone) == [n EXCEPT !.kids = PruneFrom(n.kids, p, 1, gone)]
PruneFrom(kids, p, i, gone) ==
    IF i > Len(kids) THEN <<>>
    ELSE (IF Append(p, i) \in gone THEN <<>>
          ELSE <<Prune(kids[i], Append(p, i), gone)>>)
         \o PruneFrom(kids, p, i + 1, gone)

Cur(root, p, gone) == Prune(NodeAt(root, p), p, gone)

---------------------------------------------------------------------------
(* _extract_content_slice                                                  *)

\* content_soup.find_all('div', class_='text-center')
all_text_center_divs(content_soup) ==
    SelectSeq(Descendants(content_soup, <<>>),
              LAMBDA q : NodeAt(content_soup, q).name = "div"
                         /\ HasClass(NodeAt(content_soup, q), "text-center"))

\* content_soup.find_all('div', class_='row')
all_rows(content_soup) ==
    SelectSeq(Descendants(content_soup, <<>>),
              LAMBDA q : NodeAt(content_soup, q).name = "div"
                         /\ HasClass(NodeAt(content_soup, q), "row"))

\* all_text_center_divs[-3] when there are at least three, else None.
end_content_marker(content_soup) ==
    LET tcs == all_text_center_divs(content_soup)
    IN  IF Len(tcs) >= 3 THEN tcs[Len(tcs) - 2] ELSE NoPath

\* row.find(class_='breadcrumb') or row.find('nav', class_='navbar')
IsChromeRow(row) ==
    \/ \E d \in Sub(row) : IsTag(d) /\ HasClass(d, "breadcrumb")
    \/ \E d \in Sub(row) : d.name = "nav" /\ HasClass(d, "navbar")

\* row.get_text(strip=True) or row.find('img')
RowHasContent(row) == GetText(row) # <<>> \/ FindImg(row)

\* row == end_content_marker: bs4 compares two tags by name, attributes and
\* contents, not by identity.
RowEqualsMarker(row, marker) == row = marker

\* The row loop from row index i on; acc holds the paths of the rows appended
\* so far.  append() moves a row out of content_soup, so every tag is read as
\* it is with the rows of acc gone from it.
RECURSIVE CollectRows(_, _, _)
CollectRows(content_soup, i, acc) ==
    LET rows   == all_rows(content_soup)
        marker == end_content_marker(content_soup)
        row    == Cur(content_soup, rows[i], Range(acc))
    IN  IF i > Len(rows) THEN acc
        ELSE IF marker # NoPath
                /\ RowEqualsMarker(row, Cur(content_soup, marker, Range(acc)))
             THEN acc
        ELSE IF IsChromeRow(row) THEN CollectRows(content_soup, i + 1, acc)
        ELSE IF RowHasContent(row)
             THEN CollectRows(content_soup, i + 1, Append(acc, rows[i]))
        ELSE CollectRows(content_soup, i + 1, acc)

\* q is in the accumulator: in the subtree of an appended row and not
\* decomposed.
InFragment(q, acc, removed) ==
    /\ \E i \in DOMAIN acc : IsPrefix(acc[i], q)
    /\ ~ \E g \in removed : IsPrefix(g, q)

FragmentPaths(content_soup, acc, removed) ==
    {q \in Range(Descendants(content_soup, <<>>)) : InFragment(q, acc, removed)}

unwanted_tag_names ==
    {"script", "form", "iframe", "nav", "header", "footer", "style", "noscript"}

unwanted_classes ==
    {"social-share-buttons", "navbar", "breadcrumb", "menu", "prev-next-links"}

\* The find_all(**selector) of the unwanted_selectors loop.
MatchesUnwantedSelector(n) ==
    IsTag(n) /\ (\/ \E c \in unwanted_classes : HasClass(n, c)
                 \/ "id=pagination" \in n.attrs)

empty_candidates == {"p", "div", "span", "h1", "h2", "h3", "h4", "h5", "h6"}

\* not tag.get_text(strip=True) and not tag.find('img') and not tag.find('a', href=True)
IsEmptyTagOfNoChildren(n) == n.kids = <<>>
IsEmptyTag(n) ==
    /\ GetText(n) = <<>>
    /\ ~ FindImg(n)
    /\ ~ \E d \in Sub(n) : d.name = "a" /\ d.href # NoHref

\* The three cleanup loops: the paths decomposed, given the rows in acc.
CleanUp(content_soup, acc) ==
    LET moved == Range(acc)
        r1 == {q \in FragmentPaths(content_soup, acc, {}) :
                  NodeAt(content_soup, q).name \in unwanted_tag_names}
        r2 == r1 \cup {q \in FragmentPaths(content_soup, acc, r1) :
                  MatchesUnwantedSelector(NodeAt(content_soup, q))}
        r3 == r2 \cup {q \in FragmentPaths(content_soup, acc, r2) :
                  /\ NodeAt(content_soup, q).name \in empty_candidates
                  /\ IsEmptyTag(Cur(content_soup, q, (moved \ {q}) \cup r2))}
    IN  r3

\* main_content_accumulator as a tree: a div whose children are the appended
\* rows, each without the rows moved out of it and the tags decomposed.
RECURSIVE AccumulatorKids(_, _, _, _)
AccumulatorKids(content_soup, acc, removed, i) ==
    IF i > Len(acc) THEN <<>>
    ELSE (IF acc[i] \in removed THEN <<>>
          ELSE <<Cur(content_soup, acc[i], (Range(acc) \ {acc[i]}) \cup removed)>>)
         \o AccumulatorKids(content_soup, acc, removed, i + 1)

FinalContentSoup(content_soup, acc, removed) ==
    Tag("div", <<>>, AccumulatorKids(content_soup, acc, removed, 1))

\* _extract_content_slice(soup) as one function.
ExtractContentSlice(page) ==
    LET acc == CollectRows(page, 1, <<>>)
    IN  FinalContentSoup(page, acc, CleanUp(page, acc))

---------------------------------------------------------------------------
(* _wrap_content_in_paragraph                                              *)

\* current_p = None
NoP == NoSoup

block_names_without_p ==
    {"div", "h1", "h2", "h3", "h4", "h5", "h6", "ul", "ol", "blockquote", "pre"}
block_names ==
    {"p", "div", "h1", "h2", "h3", "h4", "h5", "h6", "ul", "ol", "blockquote", "pre"}

\* child.name == 'img' or (child.name == 'a' and child.has_attr('href') and child.find('img'))
StandsAlone(child) ==
    \/ child.name = "img"
    \/ child.name = "a" /\ child.href # NoHref /\ FindImg(child)

\* if current_p: target_tag.append(current_p); current_p = None
\* (a Tag is true whatever it holds, so an open paragraph is always appended)
CloseParagraphDropped(target, current_p) == target
CloseParagraph(target, current_p) ==
    IF current_p # NoP THEN Append(target, current_p) ELSE target

\* if not current_p: current_p = new_tag("p");  current_p.append(child)
AddToParagraphAnew(current_p, child) == Tag("p", <<>>, <<child>>)
AddToParagraph(current_p, child) ==
    IF current_p = NoP THEN Tag("p", <<>>, <<child>>)
    ELSE [current_p EXCEPT !.kids = Append(@, child)]

\* if current_p and current_p.get_text(strip=True): target_tag.append(current_p)
FlushLastParagraph(target, current_p) ==
    IF current_p # NoP /\ GetText(current_p) # <<>>
    THEN Append(target, current_p) ELSE target

\* The children appended to target_tag for source_tag_or_string: the loop
\* from child i on, with target the children appended so far.
RECURSIVE WrapContentInParagraph(_)
RECURSIVE WrapFrom(_, _, _, _)
WrapContentInParagraph(source) == WrapFrom(source.kids, 1, <<>>, NoP)
WrapFrom(contents, i, target, current_p) ==
    LET child == contents[i]
    IN  IF i > Len(contents) THEN FlushLastParagraph(target, current_p)
        ELSE IF child.name = "#text" /\ child.text = WS
             THEN WrapFrom(contents, i + 1, target, current_p)
        ELSE IF child.name = "#comment"
             THEN WrapFrom(contents, i + 1, target, current_p)
        ELSE IF IsTag(child) /\ child.name \in block_names
             THEN WrapFrom(contents, i + 1,
                      Append(CloseParagraph(target, current_p),
                             IF child.name = "div"
                             THEN [child EXCEPT !.kids = WrapContentInParagraph(child)]
                             ELSE child),
                      NoP)
        ELSE IF IsTag(child) /\ StandsAlone(child)
             THEN WrapFrom(contents, i + 1,
                      Append(CloseParagraph(target, current_p), child), NoP)
        ELSE WrapFrom(contents, i + 1, target, AddToParagraph(current_p, child))

---------------------------------------------------------------------------
(* _restructure_bilingual_content                                          *)

\* element.find_all('div', class_='col-xs-6', recursive=False)
Cols(element) ==
    SelectSeq(element.kids, LAMBDA k : k.name = "div" /\ HasClass(k, "col-xs-6"))

\* cols[k].get_text(strip=True) or cols[k].find('img')
ColHasContent(col) == GetText(col) # <<>> \/ FindImg(col)

is_bilingual_row_tag(element) ==
    /\ element.name = "div"
    /\ HasClass(element, "row")
    /\ Len(Cols(element)) = 2
    /\ ColHasContent(Cols(element)[1])
    /\ ColHasContent(Cols(element)[2])

\* A td for one column: the lang attribute copied, the content wrapped.
NewTd(col) ==
    [Tag("td", <<>>, WrapContentInParagraph(col))
        EXCEPT !.attrs = {a \in col.attrs : a \in {"lang=fr", "lang=en"}}]

\* The tr of one grouped row; a row without exactly two cols is skipped.
RECURSIVE NewTrs(_, _)
NewTrs(group, i) ==
    IF i > Len(group) THEN <<>>
    ELSE (IF Len(Cols(group[i])) # 2 THEN <<>>
          ELSE <<Tag("tr", <<>>, <<NewTd(Cols(group[i])[1]),
                                   NewTd(Cols(group[i])[2])>>)>>)
         \o NewTrs(group, i + 1)

\* Process a pending group: the table is appended only if it has rows.
\* (new_tag("table", class_=...) sets the attribute named class_.)
FlushGroupOfSeveral(accumulator, group) ==
    IF Len(group) < 2 THEN accumulator
    ELSE Append(accumulator,
                [Tag("table", <<>>, NewTrs(group, 1))
                    EXCEPT !.attrs = {"class_=epub-bilingual-table"}])
FlushGroup(accumulator, group) ==
    IF group = <<>> THEN accumulator
    ELSE LET new_table == [Tag("table", <<>>, NewTrs(group, 1))
                              EXCEPT !.attrs = {"class_=epub-bilingual-table"}]
         IN  IF new_table.kids # <<>> THEN Append(accumulator, new_table)
             ELSE accumulator

\* The loop over elements_to_process from element i on.
RECURSIVE RestructureFrom(_, _, _, _)
RestructureFrom(elements, i, accumulator, group) ==
    IF i > Len(elements) THEN FlushGroup(accumulator, group)
    ELSE IF is_bilingual_row_tag(elements[i])
         THEN RestructureFrom(elements, i + 1, accumulator, Append(group, elements[i]))
    ELSE RestructureFrom(elements, i + 1,
             Append(FlushGroup(accumulator, group), elements[i]), <<>>)

\* structured_content_accumulator
RestructureBilingualContent(content_soup_fragment) ==
    Tag("div", <<>>, RestructureFrom(content_soup_fragment.kids, 1, <<>>, <<>>))

---------------------------------------------------------------------------
(* URL helpers: urlparse, urljoin, the "base_url in url" test and the      *)
(* regular expressions on the path.                                        *)

\* The site being scraped, and netlocs that are not it.  The second one has
\* the site's scheme://netloc as a prefix of its own.
SiteOrigin  == "http://a.com"
LongOrigin  == "http://a.com.evil.org"
OtherOrigin == "http://b.org"
DataOrigin  == "data:"

\* _get_base_url: scheme://netloc
GetBaseUrl(u) == u.origin

\* urljoin(current_url, href)
UrlJoin(current, href) ==
    CASE href.form = "abs"  -> href.u
      [] href.form = "rel"  -> [href.u EXCEPT !.origin = current.origin]
      [] href.form = "frag" -> [current EXCEPT !.frag = href.u.frag]
      [] href.form = "data" -> [href.u EXCEPT !.origin = DataOrigin]
      [] OTHER              -> current

\* s.startswith(base_url), for s the string of a URL of origin o: the
\* scheme://netloc of s begins with base_url.
OriginStartsWith(o, base_url) ==
    \/ o = base_url
    \/ o = LongOrigin /\ base_url = SiteOrigin

\* base_url in url: base_url is a substring of the string of url.  Paths,
\* queries and fragments of the model hold no "://", so only the
\* scheme://netloc of url can hold it.
BaseUrlIn(base_url, url) == OriginStartsWith(url.origin, base_url)

\* urlparse(url).path
Path(u) == <<u.prefix, u.kw, u.num>>

\* re.search(r'/(?:c|chapter|chapitre|part|partie)-?(\d+)', path)
marker_keywords == {"c", "chapter", "chapitre", "part", "partie"}
MatchChapter(u) == u.kw \in marker_keywords /\ u.num >= 0

\* re.search(r'/(?:c|chapter|part)-?(\d+)', path)
toc_keywords == {"c", "chapter", "part"}
MatchTocUrl(u) == u.kw \in toc_keywords /\ u.num >= 0

---------------------------------------------------------------------------
(* _find_next_page_url                                                     *)

\* The strings a link can hold in the model, by what the tests on
\* link.get_text().strip() find in them.
raquo_texts    == {">>", "<< >>", "Next >>"}           \* the right guillemet in text
laquo_texts    == {"<<", "<< >>", "<< Previous"}       \* the left guillemet in text
next_texts     == {"Next >>", "next", "Suivant", "previous | next"}
                                                      \* next|suivant|suivante
previous_texts == {"<< Previous", "previous | next"}   \* previous|precedent

TextHas(link, texts) == \E i \in DOMAIN GetText(link) : GetText(link)[i] \in texts

\* soup.find_all('a', href=True)
all_links(page) ==
    SelectSeq(Descendants(page, <<>>),
              LAMBDA q : NodeAt(page, q).name = "a" /\ NodeAt(page, q).href # NoHref)

\* The coarse test of the first loop: glyph, word or rel.
CoarseNextTest(link) ==
    \/ TextHas(link, raquo_texts) /\ ~ TextHas(link, laquo_texts)
    \/ TextHas(link, next_texts)
    \/ "rel=next" \in link.attrs

\* base_url in next_url and (path, query or fragment differ)
SameSiteOtherUrl(base_url, current, next) ==
    /\ BaseUrlIn(base_url, next)
    /\ \/ Path(current) # Path(next)
       \/ current.query # next.query
       \/ current.frag # next.frag

\* parsed_next.path == parsed_current.path and parsed_next.fragment
IsSamePageAnchor(current, next) == Path(next) = Path(current) /\ next.frag # ""

\* link.find_parent('div', class_=c)
FindParentDiv(page, q, c) ==
    \E k \in 1..(Len(q) - 1) :
        /\ NodeAt(page, SubSeq(q, 1, k)).name = "div"
        /\ HasClass(NodeAt(page, SubSeq(q, 1, k)), c)

InNavContainer(page, q) ==
    FindParentDiv(page, q, "text-center") \/ FindParentDiv(page, q, "prev-next-links")

ClearNextText(link) == TextHas(link, next_texts) /\ ~ TextHas(link, previous_texts)

\* The link at path q makes the first loop return.
Tier1Returns(page, q, current, base_url) ==
    LET link == NodeAt(page, q)
        next == UrlJoin(current, link.href)
    IN  /\ CoarseNextTest(link)
        /\ SameSiteOtherUrl(base_url, current, next)
        /\ ~ IsSamePageAnchor(current, next)
        /\ (InNavContainer(page, q) \/ ClearNextText(link))

\* The link at path q makes the second loop return.
Tier2Returns(page, q, current, base_url) ==
    LET cand == UrlJoin(current, NodeAt(page, q).href)
    IN  /\ MatchChapter(cand)
        /\ cand.num = current.num + 1
        /\ BaseUrlIn(base_url, cand)
        /\ current.prefix = cand.prefix

\* The target of the first link of links that satisfies Returns, or NoUrl.
FirstIndex(S) == CHOOSE i \in S : \A j \in S : i <= j

Tier1Result(page, current, base_url) ==
    LET links == all_links(page)
        hits  == {i \in DOMAIN links : Tier1Returns(page, links[i], current, base_url)}
    IN  IF hits = {} THEN NoUrl
        ELSE UrlJoin(current, NodeAt(page, links[FirstIndex(hits)]).href)

Tier2Result(page, current, base_url) ==
    LET links == all_links(page)
        hits  == {i \in DOMAIN links : Tier2Returns(page, links[i], current, base_url)}
    IN  IF ~ MatchChapter(current) \/ hits = {} THEN NoUrl
        ELSE UrlJoin(current, NodeAt(page, links[FirstIndex(hits)]).href)

\* The two loops in the other order.
FindNextPageUrlNumericFirst(page, current, base_url) ==
    IF Tier2Result(page, current, base_url) # NoUrl
    THEN Tier2Result(page, current, base_url)
    ELSE Tier1Result(page, current, base_url)

FindNextPageUrl(page, current, base_url) ==
    IF Tier1Result(page, current, base_url) # NoUrl
    THEN Tier1Result(page, current, base_url)
    ELSE Tier2Result(page, current, base_url)

---------------------------------------------------------------------------
(* _get_chapter_title and the table-of-contents test of                    *)
(* _process_page_content                                                   *)

title_classes == {"text-center", "chapter-title", "section-title"}

\* ''.join(strings): the text of a tag as one string.
RECURSIVE JoinText(_)
JoinText(strings) ==
    IF strings = <<>> THEN "" ELSE Head(strings) \o JoinText(Tail(strings))

\* content_soup_tag.find(['h1', 'h2', 'h3'], class_=[...]): the first match
\* in document order, NoPath when there is none.
FindTitleTag(content) ==
    LET hits == SelectSeq(Descendants(content, <<>>),
                    LAMBDA q : /\ NodeAt(content, q).name \in {"h1", "h2", "h3"}
                               /\ \E c \in title_classes : HasClass(NodeAt(content, q), c))
    IN  IF hits = <<>> THEN NoPath ELSE hits[1]

\* f"Chapter {chapter_num}" and f"Page {page_count}"
ChapterN(n) == "Chapter " \o ToString(n)
PageN(n) == "Page " \o ToString(n)

GetChapterTitle(content, url, count) ==
    LET title_tag == FindTitleTag(content)
    IN  IF title_tag # NoPath /\ GetText(NodeAt(content, title_tag)) # <<>>
        THEN JoinText(GetText(NodeAt(content, title_tag)))
        ELSE IF MatchChapter(url) THEN ChapterN(url.num)
        ELSE IF url.kw = "introduction" THEN "Introduction"
        ELSE IF url.kw = "preface" THEN "Preface"
        ELSE PageN(count)

\* The largest number a path or a title of the model holds.
MaxNum == 9

\* re.search(r'^(chapter|part)\s*\d+', title.strip(), re.IGNORECASE), on the
\* titles the model can produce.
IsChapterTitle(title) ==
    title \in {ChapterN(n) : n \in 0..MaxNum} \cup {"Part 2", "chapter 3: the pool"}

\* is_chapter_url and is_chapter_title
IsTocChapterEither(url, title) == MatchTocUrl(url) \/ IsChapterTitle(title)
IsTocChapter(url, title) == MatchTocUrl(url) /\ IsChapterTitle(title)

\* f'chap_{k:03d}.xhtml'
ChapFileName(k) == <<"chap", k, "xhtml">>

---------------------------------------------------------------------------
(* _fix_internal_links                                                     *)

\* The href written for chapter k.
ChapHref(k) == Href("chap", [NoUrl EXCEPT !.num = k])

\* The two "continue" tests at the top of the loop.
SkipsLink(href, base_url) ==
    \/ href.form = "data"
    \/ href.form = "abs" /\ ~ OriginStartsWith(href.u.origin, base_url)
    \/ href.form = "frag"

\* The index of the first chapter whose URL has the path of full_url, 0 when
\* there is none (found_chapter_idx + 1).
FoundChapter(full_url, chaps) ==
    LET hits == {i \in DOMAIN chaps : Path(chaps[i].url) = Path(full_url)}
    IN  IF hits = {} THEN 0 ELSE FirstIndex(hits)

\* What replaces node n: itself with its links fixed, or, for an unwrapped
\* link, its children.
RECURSIVE FixLinksNode(_, _, _, _)
RECURSIVE FixLinksFrom(_, _, _, _, _)
FixLinksNode(n, current, chaps, base_url) ==
    LET kids     == FixLinksFrom(n.kids, 1, current, chaps, base_url)
        full_url == UrlJoin(current, n.href)
        found    == FoundChapter(full_url, chaps)
    IN  IF n.name # "a" \/ n.href = NoHref \/ SkipsLink(n.href, base_url)
           \/ ~ BaseUrlIn(base_url, full_url)
        THEN <<[n EXCEPT !.kids = kids]>>
        ELSE IF found # 0
        THEN <<[n EXCEPT !.kids = kids, !.href = ChapHref(found)]>>
        ELSE kids
FixLinksFrom(contents, i, current, chaps, base_url) ==
    IF i > Len(contents) THEN <<>>
    ELSE FixLinksNode(contents[i], current, chaps, base_url)
         \o FixLinksFrom(contents, i + 1, current, chaps, base_url)

FixInternalLinks(content, current, chaps, base_url) ==
    [content EXCEPT !.kids = FixLinksFrom(content.kids, 1, current, chaps, base_url)]

---------------------------------------------------------------------------
(* _download_resource and the image loop of _process_page_content          *)

\* The resource URLs of the model.  A URL of the site is written as its path
\* ("/img/a.png" stands for urljoin(base_url, "/img/a.png")); the two image
\* URLs have the same file name.
image_srcs == {"/img/a.png", "/pics/a.png"}
font_srcs == {"/fonts/f.woff"}

\* os.path.splitext(os.path.basename(urlparse(full_url).path))
FileNameOf(full_url) ==
    IF full_url \in image_srcs THEN <<"a", ".png">> ELSE <<"f", ".woff">>

\* The name the while loop of _download_resource ends with: a.png, a_1.png,
\* a_2.png, ... , the first that is not a file of the directory.
UniqueFilename(files, full_url) ==
    LET name(counter) ==
            IF counter = 0 THEN FileNameOf(full_url)[1] \o FileNameOf(full_url)[2]
            ELSE FileNameOf(full_url)[1] \o "_" \o ToString(counter)
                 \o FileNameOf(full_url)[2]
        counter == CHOOSE c \in 0..Cardinality(files) :
                      /\ name(c) \notin files
                      /\ \A d \in 0..(c - 1) : name(d) \in files
    IN  name(counter)

\* f'{folder}/{unique_filename}'
EpubPath(folder, filename) == folder \o "/" \o filename

\* resource_map[full_url], "" when full_url is not a key
LookupNever(resource_map, full_url) == ""
Lookup(resource_map, full_url) ==
    IF \E e \in resource_map : e[1] = full_url
    THEN (CHOOSE e \in resource_map : e[1] = full_url)[2]
    ELSE ""

\* The resources of the converter as one record.
Resources(images, fonts, files, log) ==
    [images |-> images, fonts |-> fonts, files |-> files, log |-> log]

\* _download_resource(url, folder) on the resources res, where succeeds tells
\* whether session.get answers with the file.  The result holds the path
\* returned ("" for None) and the resources afterwards; the call is logged.
DownloadResource(res, full_url, folder, succeeds) ==
    LET resource_map == IF folder = "images" THEN res.images ELSE res.fonts
        known        == Lookup(resource_map, full_url)
        name         == UniqueFilename(res.files, full_url)
        epub_path    == EpubPath(folder, name)
        Logged(r, outcome, path) ==
            [r EXCEPT !.log = Append(@, [url |-> full_url, folder |-> folder,
                                         outcome |-> outcome, path |-> path])]
    IN  IF known # ""
        THEN [path |-> known, res |-> Logged(res, "known", known)]
        ELSE IF succeeds
        THEN [path |-> epub_path,
              res  |-> Logged(
                  IF folder = "images"
                  THEN [res EXCEPT !.files = @ \cup {name},
                                   !.images = @ \cup {<<full_url, epub_path>>}]
                  ELSE [res EXCEPT !.files = @ \cup {name},
                                   !.fonts = @ \cup {<<full_url, epub_path>>}],
                  "stored", epub_path)]
        ELSE [path |-> "", res |-> Logged(res, "failed", "")]

\* content.find_all('img', src=True), the data: URIs left out
ImgPaths(content) ==
    SelectSeq(Descendants(content, <<>>),
              LAMBDA q : /\ NodeAt(content, q).name = "img"
                         /\ NodeAt(content, q).src # ""
                         /\ NodeAt(content, q).src # "data:")

\* The image loop from image i on.  ok[i] tells whether the request made for
\* image i succeeds.  The result holds the resources afterwards and for every
\* image its new src ("" for an image that is decomposed).
RECURSIVE DownloadImages(_, _, _, _)
DownloadImages(srcs, i, ok, res) ==
    IF i > Len(srcs) THEN [res |-> res, new_src |-> <<>>]
    ELSE LET r    == DownloadResource(res, srcs[i], "images", ok[i])
             rest == DownloadImages(srcs, i + 1, ok, r.res)
         IN  [rest EXCEPT !.new_src = <<r.path>> \o @]

\* The tree with image k given new_src[k], or decomposed when that is "".
RECURSIVE RewriteImages(_, _, _, _)
RECURSIVE RewriteImagesFrom(_, _, _, _, _)
RewriteImagesNone(n, p, imgs, new_src) == n
RewriteImages(n, p, imgs, new_src) ==
    [n EXCEPT !.kids = RewriteImagesFrom(n.kids, p, 1, imgs, new_src)]
RewriteImagesFrom(contents, p, i, imgs, new_src) ==
    IF i > Len(contents) THEN <<>>
    ELSE LET q == Append(p, i)
             k == IF \E j \in DOMAIN imgs : imgs[j] = q
                  THEN CHOOSE j \in DOMAIN imgs : imgs[j] = q ELSE 0
         IN  (IF k = 0 THEN <<RewriteImages(contents[i], q, imgs, new_src)>>
              ELSE IF new_src[k] = "" THEN <<>>
              ELSE <<[contents[i] EXCEPT !.src = new_src[k]]>>)
             \o RewriteImagesFrom(contents, p, i + 1, imgs, new_src)

---------------------------------------------------------------------------
(* _process_css_urls and _extract_and_inline_css                           *)

\* A style sheet is a sequence of chunks: a chunk is a piece of text, or one
\* match of the url(...) pattern, whose src is the URL inside it.
CssText(t) == Text(t)
CssUrl(u) == [Text("url()") EXCEPT !.src = u]

\* match.group(0) of a chunk, and the replacement written for epub_path
OriginalCss(chunk) ==
    IF chunk.src = "" THEN chunk.text ELSE "url(" \o chunk.src \o ")"
RewrittenCss(epub_path) == "url(../" \o epub_path \o ")"

\* The URLs of the style sheets of the model that start with data:, or with
\* http:// or https:// and not with base_url.
foreign_css_urls == {"data:", "http://b.org/x.png"}

\* The folder chosen by the two extension patterns, "" when neither matches.
CssFolder(u) ==
    IF u \in image_srcs THEN "images" ELSE IF u \in font_srcs THEN "fonts" ELSE ""

\* The chunk is handed to _download_resource.
IsCssRequest(chunk) ==
    chunk.src # "" /\ chunk.src \notin foreign_css_urls /\ CssFolder(chunk.src) # ""

\* re.sub with replace_url_callback from chunk i on: ok[i] tells whether the
\* request made for chunk i succeeds.  The result holds the resources
\* afterwards and the processed text.
RECURSIVE ProcessCssUrls(_, _, _, _)
ProcessCssUrls(chunks, i, ok, res) ==
    IF i > Len(chunks) THEN [res |-> res, css |-> <<>>]
    ELSE IF ~ IsCssRequest(chunks[i])
    THEN LET rest == ProcessCssUrls(chunks, i + 1, ok, res)
         IN  [rest EXCEPT !.css = <<OriginalCss(chunks[i])>> \o @]
    ELSE LET r    == DownloadResource(res, chunks[i].src, CssFolder(chunks[i].src), ok[i])
             rest == ProcessCssUrls(chunks, i + 1, ok, r.res)
         IN  [rest EXCEPT !.css =
                 <<IF r.path # "" THEN RewrittenCss(r.path)
                   ELSE OriginalCss(chunks[i])>> \o @]

\* The text handed to _process_css_urls by the loop over the style tags:
\* the chunks of every style tag of the page, each tag followed by "\n".
RECURSIVE StyleChunksFrom(_, _, _)
StyleChunksFrom(page, paths, i) ==
    IF i > Len(paths) THEN <<>>
    ELSE IF NodeAt(page, paths[i]).name = "style"
    THEN NodeAt(page, paths[i]).kids \o <<CssText("\n")>>
         \o StyleChunksFrom(page, paths, i + 1)
    ELSE StyleChunksFrom(page, paths, i + 1)
StyleChunks(page) == StyleChunksFrom(page, Descendants(page, <<>>), 1)

\* The chunks of the page's style tags that lead to a request.
CssRequests(page) ==
    {i \in DOMAIN StyleChunks(page) : IsCssRequest(StyleChunks(page)[i])}

\* _extract_and_inline_css(soup): the built-in sheet followed by the
\* processed text of the style tags.  (The pages of the model hold no
\* link rel="stylesheet", so the second loop finds nothing.)
ExtractAndInlineCss(page, ok, res) ==
    LET processed == ProcessCssUrls(StyleChunks(page), 1, ok, res)
    IN  [processed EXCEPT !.css = <<"default.css">> \o @]

---------------------------------------------------------------------------
(* The pages the model is run on.                                          *)

\* All sequences over S of length at most n.
SeqsUpTo(S, n) == UNION {[1..k -> S] : k \in 0..n}

Col(lang, kids) == [Tag("div", <<"col-xs-6">>, kids) EXCEPT !.attrs = lang]

NavLink(u, text) == A(Href("abs", u), <<>>, <<Text(text)>>)

RelLink(u, text) == A(Href("rel", [u EXCEPT !.origin = ""]), <<>>, <<Text(text)>>)

BookUrl(kw, num) == Url(SiteOrigin, "/book", kw, num, "", "")

\* Top-level blocks of a page handed to the slicer.
slice_blocks ==
    { \* a bilingual content row
      Tag("div", <<"row">>, <<Col({}, <<Text("fr")>>), Col({}, <<Text("en")>>)>>),
      \* a navigation row that is itself a section marker
      Tag("div", <<"row", "text-center">>, <<NavLink(BookUrl("c", 2), ">>")>>),
      \* a section marker that is not a row
      Tag("div", <<"text-center">>, <<NavLink(BookUrl("c", 2), ">>")>>),
      \* a row that holds two section markers that are not rows
      Tag("div", <<"row">>,
          <<Tag("div", <<"text-center">>, <<Text("title")>>),
            Tag("div", <<"text-center">>, <<Text("author")>>)>>),
      \* a row that holds a row that is a section marker
      Tag("div", <<"row">>,
          <<Text("intro"), Tag("div", <<"row", "text-center">>, <<Text("more")>>)>>),
      \* a breadcrumb row
      Tag("div", <<"row">>, <<Tag("ul", <<"breadcrumb">>, <<Text("home")>>)>>),
      \* a row with a script, an empty span, a div that holds only a nav, a
      \* paragraph that holds only an empty span, a pagination list, a menu,
      \* a div that holds only a link without text, and text
      Tag("div", <<"row">>,
          <<Tag("script", <<>>, <<Text("js")>>),
            Tag("span", <<>>, <<>>),
            Tag("div", <<>>, <<Tag("nav", <<>>, <<Text("site")>>)>>),
            Tag("p", <<>>, <<Tag("span", <<>>, <<>>)>>),
            [Tag("ul", <<>>, <<Text("1 2")>>) EXCEPT !.attrs = {"id=pagination"}],
            Tag("div", <<"menu">>, <<Text("m")>>),
            Tag("div", <<>>, <<A(Href("rel", BookUrl("c", 2)), <<>>, <<>>)>>),
            Text("body")>>),
      \* an empty row
      Tag("div", <<"row">>, <<Tag("p", <<>>, <<Text(WS)>>)>>) }

slice_pages == {Document(s) : s \in SeqsUpTo(slice_blocks, MaxBlocks)}

\* Direct children of a fragment handed to the restructurer.
restr_blocks ==
    { \* a bilingual row of plain text
      Tag("div", <<"row">>,
          <<Col({"lang=fr"}, <<Text("fr1")>>), Col({"lang=en"}, <<Text("en1")>>)>>),
      \* inline and block children, white space, a comment, an image
      Tag("div", <<"row">>,
          <<Col({}, <<Tag("span", <<>>, <<Text("fr2")>>), Text(WS),
                      Tag("p", <<>>, <<Text("fr3")>>), Comm("note")>>),
            Col({}, <<Img("/img/a.png"), Text("en2"), Tag("em", <<>>, <<Text(WS)>>)>>)>>),
      \* a column whose only content is an image inside a span
      Tag("div", <<"row">>,
          <<Col({}, <<Tag("span", <<>>, <<Img("/img/a.png")>>)>>),
            Col({}, <<Text("en3")>>)>>),
      \* a row with text beside its two columns, and a nested div
      Tag("div", <<"row">>,
          <<Text("extra"), Col({}, <<Text("fr4")>>),
            Col({}, <<Tag("div", <<"note">>,
                          <<Text("en4"), Tag("em", <<>>, <<Text("en5")>>)>>)>>)>>),
      \* a paragraph
      Tag("p", <<>>, <<Text("prose")>>),
      \* white space between two elements
      Text(WS),
      \* a div that is not a row and holds a bilingual row
      Tag("div", <<"chapter">>,
          <<Tag("div", <<"row">>,
                <<Col({}, <<Text("fr6")>>), Col({}, <<Text("en6")>>)>>)>>),
      \* a row with an empty column
      Tag("div", <<"row">>, <<Col({}, <<Text("fr7")>>), Col({}, <<>>)>>) }

restr_fragments == {Tag("div", <<>>, s) : s \in SeqsUpTo(restr_blocks, MaxChildren)}

\* Children of a source handed to the paragraph wrapper.
wrap_children ==
    {Text("a"), Text(WS), Comm("note"),
     Tag("p", <<>>, <<Text("text")>>),
     Tag("span", <<>>, <<Text("b")>>),
     Img("/img/a.png"),
     Tag("span", <<>>, <<Img("/img/a.png")>>),
     A(Href("rel", BookUrl("chapter", 2)), <<>>, <<Img("/img/a.png")>>),
     Tag("div", <<"note">>, <<Text("c"), Tag("p", <<>>, <<Text("d")>>)>>)}

wrap_sources == {Tag("div", <<>>, s) : s \in SeqsUpTo(wrap_children, MaxChildren)}

\* The URLs the locator is called with, and the links of its pages.
loc_urls == {BookUrl("chapter", 4), Url(SiteOrigin, "/book", "introduction", -1, "q=1", "")}

loc_blocks ==
    { \* the site's own navigation: a glyph in a centered div
      Tag("div", <<"text-center">>, <<NavLink(BookUrl("chapter", 7), ">>")>>),
      \* a link that says "next", outside any container
      NavLink(BookUrl("part", 1), "next"),
      \* a glyph outside any container: passes the coarse test only
      NavLink(BookUrl("chapter", 8), ">>"),
      \* the numeric successor
      NavLink(BookUrl("chapter", 5), "5"),
      \* the predecessor, in the navigation container
      Tag("div", <<"text-center">>, <<NavLink(BookUrl("chapter", 3), "<< Previous")>>),
      \* an anchor of the current page, in the navigation container
      Tag("div", <<"text-center">>,
          <<A(Href("frag", [NoUrl EXCEPT !.frag = "top"]), <<>>, <<Text("next")>>)>>),
      \* rel=next to another site
      [NavLink(Url(OtherOrigin, "/book", "chapter", 5, "", ""), "5")
          EXCEPT !.attrs = {"rel=next"}],
      \* value N+1 under another prefix
      NavLink(Url(SiteOrigin, "/other", "chapter", 5, "", ""), "5"),
      \* value N+1 with another keyword
      NavLink(BookUrl("part", 5), "V"),
      \* the current path with another query
      NavLink(Url(SiteOrigin, "/book", "introduction", -1, "q=2", ""), "Suivant"),
      \* a site whose name begins with this site's name
      NavLink(Url(LongOrigin, "/book", "chapter", 5, "", ""), "next") }

loc_pages == {Document(s) : s \in SeqsUpTo(loc_blocks, MaxLinks)}

\* The URLs of the crawled site: two chapters, a third one named in French,
\* and the introduction.
crawl_urls ==
    {BookUrl("chapter", 1), BookUrl("chapter", 2), BookUrl("chapitre", 3),
     BookUrl("introduction", -1)}

\* The style tag of a page: text, an image and a font of the site, and an
\* image of another site.
StyleTag ==
    Tag("style", <<>>, <<CssText("body{}"), CssUrl("/img/a.png"),
                         CssUrl("/fonts/f.woff"), CssUrl("http://b.org/x.png")>>)

\* What a page holds besides its navigation: a title ("" for none), text or
\* no text, a link in the text (NoUrl for none), an image ("" for none), a
\* style tag or none.
Variant(title, body, link, img, style) ==
    [title |-> title, body |-> body, link |-> link, img |-> img, style |-> style]

plain_page == Variant("", TRUE, NoUrl, "", FALSE)
empty_page == Variant("", FALSE, NoUrl, "", FALSE)
chapter_titled_page == Variant("Chapter 3", TRUE, NoUrl, "", FALSE)
page_titled_page == Variant("Page 7", TRUE, NoUrl, "", FALSE)
styled_page == Variant("", TRUE, NoUrl, "/img/a.png", TRUE)
LinkedPage(u) == Variant("", TRUE, u, "", FALSE)
PicturedPage(src) == Variant("", TRUE, NoUrl, src, FALSE)

page_variants ==
    {plain_page, empty_page, chapter_titled_page, page_titled_page, styled_page,
     LinkedPage(BookUrl("chapter", 1)), LinkedPage(BookUrl("chapter", 2)),
     PicturedPage("/img/a.png"), PicturedPage("/pics/a.png")}

\* A page of the crawled site: an optional style tag, an optional title row,
\* one content row (with an optional link and an optional image in its
\* columns) or an empty row, and an optional navigation div.
CrawlPage(v, nav) ==
    Document(
        (IF v.style THEN <<StyleTag>> ELSE <<>>)
        \o (IF v.title = "" THEN <<>>
            ELSE <<Tag("div", <<"row">>,
                       <<Tag("h1", <<"chapter-title">>, <<Text(v.title)>>)>>)>>)
        \o <<Tag("div", <<"row">>,
                 <<Col({"lang=fr"},
                       (IF v.body THEN <<Text("fr")>> ELSE <<>>)
                       \o (IF v.link = NoUrl THEN <<>> ELSE <<RelLink(v.link, "see")>>)),
                   Col({"lang=en"},
                       (IF v.body THEN <<Text("en")>> ELSE <<>>)
                       \o (IF v.img = "" THEN <<>> ELSE <<Img(v.img)>>))>>)>>
        \o (IF nav = NoUrl THEN <<>>
            ELSE <<Tag("div", <<"text-center">>, <<RelLink(nav, ">>")>>)>>))

crawl_pages == {CrawlPage(v, n) : v \in page_variants, n \in crawl_urls \cup {NoUrl}}

\* A site gives every URL its page.
Site(chapter1, introduction, chapter2, chapter3) ==
    [u \in crawl_urls |->
        IF u = BookUrl("chapter", 1) THEN chapter1
        ELSE IF u = BookUrl("introduction", -1) THEN introduction
        ELSE IF u = BookUrl("chapter", 2) THEN chapter2
        ELSE chapter3]

\* Plain pages with every link structure between them.
linked_sites ==
    {Site(CrawlPage(plain_page, n1), CrawlPage(plain_page, n2),
          CrawlPage(plain_page, n3), CrawlPage(plain_page, n4)) :
        n1 \in crawl_urls \cup {NoUrl}, n2 \in crawl_urls \cup {NoUrl},
        n3 \in crawl_urls \cup {NoUrl}, n4 \in crawl_urls \cup {NoUrl}}

\* Pages of every kind, each leading to the next: chapter 1, the
\* introduction, chapter 2, chapter 3; the chain may end at any page.
chained_sites ==
    {Site(CrawlPage(v1, n1), CrawlPage(v2, n2), CrawlPage(v3, n3),
          CrawlPage(plain_page, NoUrl)) :
        v1 \in page_variants,
        v2 \in page_variants \ {styled_page, page_titled_page},
        v3 \in {plain_page, chapter_titled_page, PicturedPage("/img/a.png"),
                LinkedPage(BookUrl("chapter", 1))},
        n1 \in {BookUrl("introduction", -1)},
        n2 \in {BookUrl("chapter", 2), NoUrl},
        n3 \in {BookUrl("chapitre", 3)}}

sites == linked_sites \cup chained_sites

---------------------------------------------------------------------------
(* The slicer, the restructurer and the locator, each applied to one input *)

SliceIdle ==
    slice_soup = NoSoup /\ slice_pc = "idle" /\ slice_acc = <<>> /\ slice_removed = {}
RestrIdle == restr_in = NoSoup /\ restr_out = NoSoup /\ restr_pc = "idle"
WrapIdle ==
    wrap_source = NoSoup /\ wrap_target = <<>> /\ wrap_again = <<>> /\ wrap_pc = "idle"
LocIdle == loc_soup = NoSoup /\ loc_url = NoUrl /\ loc_result = NoUrl /\ loc_pc = "idle"
CrawlIdle ==
    /\ site = <<>>
    /\ start_url = NoUrl /\ debug_mode = FALSE /\ pc = "idle"
    /\ current_url = NoUrl /\ page_count = 0 /\ processed_urls = {}
    /\ soup = NoSoup /\ chapter_data = FALSE /\ next_url = NoUrl
    /\ chapters = <<>> /\ epub_nav_chapters = <<>> /\ epub_items = <<>>
    /\ image_files = {} /\ font_files = {} /\ temp_files = {}
    /\ css_content = <<>> /\ resource_log = <<>>
    /\ fetched = <<>> /\ fetch_failed = {}

SliceInit ==
    /\ slice_soup \in slice_pages /\ slice_pc = "start"
    /\ slice_acc = <<>> /\ slice_removed = {}
    /\ RestrIdle /\ LocIdle /\ CrawlIdle /\ WrapIdle

\* The row loop of _extract_content_slice.
SliceCollect ==
    /\ slice_pc = "start"
    /\ slice_acc' = CollectRows(slice_soup, 1, <<>>)
    /\ slice_pc' = "collected"
    /\ UNCHANGED <<slice_soup, slice_removed, restrVars, locVars, crawlVars, wrapVars>>

\* The cleanup loops of _extract_content_slice.
SliceCleanUp ==
    /\ slice_pc = "collected"
    /\ slice_removed' = CleanUp(slice_soup, slice_acc)
    /\ slice_pc' = "done"
    /\ UNCHANGED <<slice_soup, slice_acc, restrVars, locVars, crawlVars, wrapVars>>

SliceNext == SliceCollect \/ SliceCleanUp
SliceSpec == SliceInit /\ [][SliceNext]_vars

RestrInit ==
    /\ restr_in \in restr_fragments /\ restr_out = NoSoup /\ restr_pc = "start"
    /\ SliceIdle /\ LocIdle /\ CrawlIdle /\ WrapIdle

Restructure ==
    /\ restr_pc = "start"
    /\ restr_out' = RestructureBilingualContent(restr_in)
    /\ restr_pc' = "done"
    /\ UNCHANGED <<restr_in, sliceVars, locVars, crawlVars, wrapVars>>

RestrNext == Restructure
RestrSpec == RestrInit /\ [][RestrNext]_vars

WrapInit ==
    /\ wrap_source \in wrap_sources /\ wrap_pc = "start"
    /\ wrap_target = <<>> /\ wrap_again = <<>>
    /\ SliceIdle /\ RestrIdle /\ LocIdle /\ CrawlIdle

\* _wrap_content_in_paragraph(source, target) with an empty target.
Wrap ==
    /\ wrap_pc = "start"
    /\ wrap_target' = WrapContentInParagraph(wrap_source)
    /\ wrap_pc' = "wrapped"
    /\ UNCHANGED <<wrap_source, wrap_again, sliceVars, restrVars, locVars, crawlVars>>

\* The same call with the target of the first call as its source.
WrapAgain ==
    /\ wrap_pc = "wrapped"
    /\ wrap_again' = WrapContentInParagraph(Tag("div", <<>>, wrap_target))
    /\ wrap_pc' = "done"
    /\ UNCHANGED <<wrap_source, wrap_target, sliceVars, restrVars, locVars, crawlVars>>

WrapNext == Wrap \/ WrapAgain
WrapSpec == WrapInit /\ [][WrapNext]_vars

LocInit ==
    /\ loc_soup \in loc_pages /\ loc_url \in loc_urls
    /\ loc_result = NoUrl /\ loc_pc = "start"
    /\ SliceIdle /\ RestrIdle /\ CrawlIdle /\ WrapIdle

Locate ==
    /\ loc_pc = "start"
    /\ loc_result' = FindNextPageUrl(loc_soup, loc_url, SiteOrigin)
    /\ loc_pc' = "done"
    /\ UNCHANGED <<loc_soup, loc_url, sliceVars, restrVars, crawlVars, wrapVars>>

LocNext == Locate
LocSpec == LocInit /\ [][LocNext]_vars

---------------------------------------------------------------------------
(* scrape_book, _process_page_content and create_epub                      *)

\* self.max_pages = 3 if debug_mode else float('inf')
debug_max_pages == 3

\* page_count < self.max_pages
BelowMaxPagesOrAt(count) == debug_mode => count <= debug_max_pages
BelowMaxPages(count) == debug_mode => count < debug_max_pages

Init ==
    /\ site \in sites
    /\ start_url = BookUrl("chapter", 1)
    /\ debug_mode \in BOOLEAN
    /\ pc = "loop"
    /\ current_url = start_url
    /\ page_count = 0
    /\ processed_urls = {}
    /\ soup = NoSoup /\ chapter_data = FALSE /\ next_url = NoUrl
    /\ chapters = <<>> /\ epub_nav_chapters = <<>> /\ epub_items = <<>>
    /\ image_files = {} /\ font_files = {} /\ temp_files = {}
    /\ css_content = <<>> /\ resource_log = <<>>
    /\ fetched = <<>> /\ fetch_failed = {}
    /\ SliceIdle /\ RestrIdle /\ LocIdle /\ WrapIdle

\* if current_url in processed_urls: break
AlreadyProcessedNever(url, processed) == FALSE
AlreadyProcessed(url, processed) == url \in processed

\* The head of the while loop: its condition, the test of processed_urls,
\* and the two updates before the fetch.
LoopHead ==
    /\ pc = "loop"
    /\ IF current_url = NoUrl \/ ~ BelowMaxPages(page_count)
          \/ AlreadyProcessed(current_url, processed_urls)
       THEN /\ pc' = "scraped"
            /\ UNCHANGED <<processed_urls, page_count>>
       ELSE /\ processed_urls' = processed_urls \cup {current_url}
            /\ page_count' = page_count + 1
            /\ pc' = "fetch"
    /\ UNCHANGED <<site, start_url, debug_mode, current_url, soup, chapter_data, next_url,
                   chapters, epub_nav_chapters, epub_items, resVars,
                   fetched, fetch_failed, sliceVars, restrVars, locVars, wrapVars>>

\* _get_page_content returns a page.
FetchOk ==
    /\ pc = "fetch"
    /\ soup' = site[current_url]
    /\ fetched' = Append(fetched, current_url)
    /\ pc' = "process"
    /\ UNCHANGED <<site, start_url, debug_mode, current_url, page_count, processed_urls,
                   chapter_data, next_url, chapters, epub_nav_chapters, epub_items,
                   resVars, fetch_failed,
                   sliceVars, restrVars, locVars, wrapVars>>

\* Where scrape_book goes when _get_page_content returned None: break.
AfterFetchFailureRetry == "fetch"
AfterFetchFailure == "scraped"

\* _get_page_content returns None.
FetchFail ==
    /\ pc = "fetch"
    /\ soup' = NoSoup
    /\ fetched' = Append(fetched, current_url)
    /\ fetch_failed' = fetch_failed \cup {current_url}
    /\ pc' = AfterFetchFailure
    /\ UNCHANGED <<site, start_url, debug_mode, current_url, page_count, processed_urls,
                   chapter_data, next_url, chapters, epub_nav_chapters, epub_items,
                   resVars, sliceVars, restrVars, locVars, wrapVars>>

\* The chapters handed to _fix_internal_links for the page being processed:
\* self.chapters as it is at line 740, before the page's own record is
\* appended at line 749.
KnownChapters(chaps) == chaps

\* file_name=f'chap_{len(self.chapters):03d}.xhtml', after the append
NavFileNameByPage(n_chapters, count) == ChapFileName(count)
NavFileName(n_chapters, count) == ChapFileName(n_chapters)

\* The href attributes of the hyperlinks of a fragment, in document order.
LinkHrefs(content) ==
    LET links == all_links(content)
    IN  [k \in DOMAIN links |-> NodeAt(content, links[k]).href]

\* if not content_soup_fragment or not content_soup_fragment.get_text(strip=True)
NoMeaningfulContentNever(fragment) == FALSE
NoMeaningfulContentInverted(fragment) == GetText(fragment) # <<>>
NoMeaningfulContent(fragment) == GetText(fragment) = <<>>

\* The calls of lines 705, 708 and 719 on the pages of the site, each computed
\* once: the next URL, the slice, and the restructured slice.
NextUrlOf ==
    [a \in crawl_pages \X crawl_urls |-> FindNextPageUrl(a[1], a[2], SiteOrigin)]
SliceOf == [p \in crawl_pages |-> ExtractContentSlice(p)]
RestructuredOf == [p \in crawl_pages |-> RestructureBilingualContent(SliceOf[p])]

\* self.image_files, self.font_files and the temporary directory become res.
SetResources(res) ==
    /\ image_files' = res.images
    /\ font_files' = res.fonts
    /\ temp_files' = res.files
    /\ resource_log' = res.log

\* _process_page_content.  A record of self.chapters holds title, content
\* and url, and for the properties the hrefs of the links and the srcs of the
\* images the content had before they were rewritten; an entry of
\* self.epub_nav_chapters holds title and file_name, and for the properties
\* the url of the page it was made for.
ProcessPage ==
    /\ pc = "process"
    /\ \E ok_css \in [(IF page_count = 1 THEN CssRequests(soup) ELSE {}) -> BOOLEAN] :
         LET base_url == GetBaseUrl(start_url)
             fragment == SliceOf[soup]
             res0     == Resources(image_files, font_files, temp_files, resource_log)
             css      == IF page_count = 1 THEN ExtractAndInlineCss(soup, ok_css, res0)
                         ELSE [res |-> res0, css |-> css_content]
         IN  /\ css_content' = css.css
             /\ next_url' = IF base_url = SiteOrigin
                            THEN NextUrlOf[<<soup, current_url>>]
                            ELSE FindNextPageUrl(soup, current_url, base_url)
             /\ IF NoMeaningfulContent(fragment)
                THEN /\ chapter_data' = FALSE
                     /\ SetResources(css.res)
                     /\ UNCHANGED <<chapters, epub_nav_chapters>>
                ELSE LET restructured == RestructuredOf[soup]
                         imgs == ImgPaths(restructured)
                         srcs == [k \in DOMAIN imgs |-> NodeAt(restructured, imgs[k]).src]
                     IN  \E ok \in [DOMAIN srcs -> BOOLEAN] :
                           LET dl == DownloadImages(srcs, 1, ok, css.res)
                               with_images ==
                                   RewriteImages(restructured, <<>>, imgs, dl.new_src)
                               content ==
                                   FixInternalLinks(with_images, current_url,
                                                    KnownChapters(chapters), base_url)
                               title == GetChapterTitle(content, current_url, page_count)
                               record == [title |-> title, content |-> content,
                                          url |-> current_url,
                                          links |-> LinkHrefs(with_images),
                                          imgs |-> srcs]
                           IN  /\ chapter_data' = TRUE
                               /\ chapters' = Append(chapters, record)
                               /\ SetResources(dl.res)
                               /\ epub_nav_chapters' =
                                     IF IsTocChapter(current_url, title)
                                     THEN Append(epub_nav_chapters,
                                              [title |-> title,
                                               file_name |-> NavFileName(Len(chapters) + 1,
                                                                         page_count),
                                               url |-> current_url])
                                     ELSE epub_nav_chapters
    /\ pc' = "advance"
    /\ UNCHANGED <<site, start_url, debug_mode, current_url, page_count, processed_urls,
                   soup, epub_items, fetched, fetch_failed,
                   sliceVars, restrVars, locVars, wrapVars>>

\* The rest of the loop body: lines 832-854.
Advance ==
    /\ pc = "advance"
    /\ IF ~ chapter_data
       THEN IF next_url # NoUrl
            THEN current_url' = next_url /\ pc' = "loop"
            ELSE pc' = "scraped" /\ UNCHANGED current_url
       ELSE IF next_url # NoUrl /\ next_url # current_url /\ BelowMaxPages(page_count)
            THEN current_url' = next_url /\ pc' = "loop"
            ELSE pc' = "scraped" /\ UNCHANGED current_url
    /\ UNCHANGED <<site, start_url, debug_mode, page_count, processed_urls, soup,
                   chapter_data, next_url, chapters, epub_nav_chapters, epub_items,
                   resVars, fetched, fetch_failed,
                   sliceVars, restrVars, locVars, wrapVars>>

\* _add_epub_chapters: one item per chapter, named by its place; the loop
\* over self.epub_nav_chapters changes nothing.
AddEpubChapters(chaps) ==
    [i \in DOMAIN chaps |-> [title |-> chaps[i].title, file_name |-> ChapFileName(i)]]

\* scrape_book returns len(self.chapters) > 0; main then calls create_epub
\* or exits with status 1.
ScrapeBookResultOfPages(chaps, count) == count > 0
ScrapeBookResult(chaps, count) == Len(chaps) > 0

Finish ==
    /\ pc = "scraped"
    /\ IF ScrapeBookResult(chapters, page_count)
       THEN pc' = "packaged" /\ epub_items' = AddEpubChapters(chapters)
       ELSE pc' = "failed" /\ UNCHANGED epub_items
    /\ UNCHANGED <<site, start_url, debug_mode, current_url, page_count, processed_urls,
                   soup, chapter_data, next_url, chapters, epub_nav_chapters,
                   resVars, fetched, fetch_failed,
                   sliceVars, restrVars, locVars, wrapVars>>

Next == LoopHead \/ FetchOk \/ FetchFail \/ ProcessPage \/ Advance \/ Finish

Spec == Init /\ [][Next]_vars

\* The run is not over: in each of these positions Next has a step.
Running == pc \in {"loop", "fetch", "process", "advance", "scraped"}

\* scrape_book and main run on: while the run is not over, steps are taken.
\* (This is WF_vars(Next), with ENABLED <<Next>>_vars written as Running.)
FairSpec == Spec /\ ([]<>(~ Running) \/ []<><<Next>>_vars)

---------------------------------------------------------------------------
(* Properties.                                                             *)

IsRowAt(page, q) == NodeAt(page, q).name = "div" /\ HasClass(NodeAt(page, q), "row")

\* The place of the node at path q in document order.
DocIndex(page, q) ==
    CHOOSE i \in DOMAIN Descendants(page, <<>>) : Descendants(page, <<>>)[i] = q

\* C1: on a page with at least three section markers the returned fragment
\* holds no row that is the end marker (the third-from-last div.text-center)
\* or comes at or after it in document order, neither as a direct child nor
\* inside an included row; whatever the end marker is and wherever it sits.
C1_BoundaryExactness ==
    (slice_pc = "done" /\ Len(all_text_center_divs(slice_soup)) >= 3) =>
        \A q \in FragmentPaths(slice_soup, slice_acc, slice_removed) :
            IsRowAt(slice_soup, q) =>
                DocIndex(slice_soup, q)
                    < DocIndex(slice_soup, end_content_marker(slice_soup))

\* The tr elements of a tree, in document order.
TableRows(tree) ==
    LET trs == SelectSeq(Descendants(tree, <<>>), LAMBDA q : NodeAt(tree, q).name = "tr")
    IN  [k \in DOMAIN trs |-> NodeAt(tree, trs[k])]

\* The direct children of a fragment that satisfy the bilingual-row predicate.
BilingualRows(fragment) == SelectSeq(fragment.kids, is_bilingual_row_tag)

\* C2: the restructured fragment holds exactly one tr with two td cells for
\* each direct child that is a bilingual row, in the order of the rows, and
\* the non-white-space text of the left and of the right cell is that of the
\* row's first and second column.
C2_OneTableRowPerBilingualRow ==
    restr_pc = "done" =>
        LET rows == BilingualRows(restr_in)
            trs  == TableRows(restr_out)
        IN  /\ Len(trs) = Len(rows)
            /\ \A k \in DOMAIN rows :
                  /\ Len(trs[k].kids) = 2
                  /\ trs[k].kids[1].name = "td" /\ trs[k].kids[2].name = "td"
                  /\ GetText(trs[k].kids[1]) = GetText(Cols(rows[k])[1])
                  /\ GetText(trs[k].kids[2]) = GetText(Cols(rows[k])[2])

\* Two groups of bilingual rows around another element, one of the rows with
\* inline, block and white-space children: two tables, three table rows.
C2_Witness ==
    /\ restr_pc = "done"
    /\ Len(restr_in.kids) = 3
    /\ is_bilingual_row_tag(restr_in.kids[1])
    /\ GetText(restr_in.kids[1]) = <<"fr2", "fr3", "en2">>
    /\ ~ is_bilingual_row_tag(restr_in.kids[2])
    /\ is_bilingual_row_tag(restr_in.kids[3])
    /\ Len(TableRows(restr_out)) = 2
    /\ GetText(TableRows(restr_out)[1].kids[1]) = <<"fr2", "fr3">>

\* C3: no URL is fetched twice; the visited set only grows; a URL is in the
\* visited set before it is fetched; and with the current URL already
\* visited the loop ends with no other fetch and no other chapter record.
C3_NoUrlFetchedTwice ==
    /\ [](/\ \A i, j \in DOMAIN fetched : i # j => fetched[i] # fetched[j]
          /\ Range(fetched) \subseteq processed_urls
          /\ (pc = "fetch" => current_url \in processed_urls))
    /\ [][/\ processed_urls \subseteq processed_urls'
          /\ (pc = "loop" /\ current_url \in processed_urls) =>
                (pc' = "scraped" /\ fetched' = fetched /\ chapters' = chapters)
          /\ pc \in {"scraped", "packaged", "failed"} =>
                (fetched' = fetched /\ chapters' = chapters)]_vars

\* The seed reached again through a cycle A -> B -> A: two pages fetched, two
\* records, and the crawl over with the seed as its current URL.
C3_Witness ==
    /\ pc = "packaged"
    /\ Len(fetched) = 2 /\ Len(chapters) = 2
    /\ current_url = start_url
    /\ fetched[2] # start_url
    /\ fetch_failed = {}

\* Every hyperlink of the page leads to url itself.
OnlyLinksToItself(page, url) ==
    /\ all_links(page) # <<>>
    /\ \A k \in DOMAIN all_links(page) :
          UrlJoin(url, NodeAt(page, all_links(page)[k]).href) = url

\* The first page has been fetched, has content, and links only to itself.
SeedLinksToItself ==
    /\ page_count = 1 /\ soup # NoSoup
    /\ GetText(SliceOf[soup]) # <<>>
    /\ OnlyLinksToItself(soup, start_url)

\* C4: a crawl whose seed page has content and links only to itself fetches
\* and processes that one page, and ends with exactly one chapter record.
C4_SelfLinkOneIteration ==
    SeedLinksToItself =>
        /\ fetched = <<start_url>>
        /\ pc \in {"process", "advance", "scraped", "packaged"}
        /\ pc # "process" => Len(chapters) = 1 /\ next_url = NoUrl
        /\ current_url = start_url

C4_Witness ==
    SeedLinksToItself /\ pc = "packaged" /\ Len(chapters) = 1 /\ Len(fetched) = 1

\* The links of the locator's page that pass the textual / relation test and
\* its refinements.
Tier1Links ==
    {i \in DOMAIN all_links(loc_soup) :
        Tier1Returns(loc_soup, all_links(loc_soup)[i], loc_url, SiteOrigin)}

\* The links of the locator's page that lead to a path of this site with the
\* current prefix and a marker of value N+1.
SuccessorLinks ==
    {i \in DOMAIN all_links(loc_soup) :
        Tier2Returns(loc_soup, all_links(loc_soup)[i], loc_url, SiteOrigin)}

LocTarget(i) == UrlJoin(loc_url, NodeAt(loc_soup, all_links(loc_soup)[i]).href)

\* C5: when some link passes tier 1 the locator returns the target of the
\* first such link, whether or not the page links to a numeric successor;
\* the numeric tier answers only when tier 1 yields nothing, and then, on
\* /book/chapter-4/ with a link to /book/chapter-5/ as the page's successor
\* link, the locator returns /book/chapter-5/.
C5_Tier1BeforeTier2 ==
    loc_pc = "done" =>
        /\ Tier1Links # {} => loc_result = LocTarget(FirstIndex(Tier1Links))
        /\ (Tier1Links = {} /\ loc_result # NoUrl) =>
              \E i \in SuccessorLinks : loc_result = LocTarget(i)
        /\ (/\ Tier1Links = {}
            /\ loc_url = BookUrl("chapter", 4)
            /\ SuccessorLinks # {}
            /\ \A i \in SuccessorLinks : LocTarget(i) = BookUrl("chapter", 5))
              => loc_result = BookUrl("chapter", 5)

\* A glyph in a centered div and a link to chapter 5 on the page of
\* chapter 4: the glyph's target is returned.
C5_Witness ==
    /\ loc_pc = "done"
    /\ loc_url = BookUrl("chapter", 4)
    /\ Tier1Links # {} /\ SuccessorLinks # {}
    /\ FirstIndex(SuccessorLinks) < FirstIndex(Tier1Links)
    /\ loc_result = BookUrl("chapter", 7)

\* C6: when a fetch fails the loop ends at once: the URL is not fetched
\* again, no page is fetched after it, the failed page gets no chapter
\* record, and the records made before it stay as they are.
C6_FetchFailureStops ==
    /\ [](fetch_failed # {} =>
            /\ pc \in {"scraped", "packaged", "failed"}
            /\ fetch_failed = {fetched[Len(fetched)]}
            /\ \A i \in 1..(Len(fetched) - 1) : fetched[i] \notin fetch_failed
            /\ \A k \in DOMAIN chapters : chapters[k].url \notin fetch_failed)
    /\ [][/\ fetch_failed' # fetch_failed =>
                /\ pc' = "scraped"
                /\ chapters' = chapters
                /\ epub_nav_chapters' = epub_nav_chapters
          /\ fetch_failed # {} => (fetched' = fetched /\ chapters' = chapters)]_vars

\* The second fetch failed: the record of the first page is packaged.
C6_Witness ==
    /\ pc = "packaged"
    /\ Len(fetched) = 2 /\ fetch_failed = {fetched[2]}
    /\ Len(chapters) = 1 /\ chapters[1].url = fetched[1]
    /\ Len(epub_items) = 1

\* The sliced fragment of the fetched page has no text but white space.
EmptyFragment == soup # NoSoup /\ GetText(SliceOf[soup]) = <<>>

\* C7: a page whose fragment has no text gets no chapter record and no entry
\* of the table of contents; its next URL is the one found on the page as it
\* was fetched; the loop goes on with that URL when there is one and ends
\* when there is none.
C7_EmptyPageSkipped ==
    [][/\ (pc = "process" /\ EmptyFragment) =>
            /\ chapters' = chapters
            /\ epub_nav_chapters' = epub_nav_chapters
            /\ chapter_data' = FALSE
            /\ next_url' = FindNextPageUrl(soup, current_url, GetBaseUrl(start_url))
       /\ (pc = "advance" /\ EmptyFragment) =>
            /\ chapters' = chapters
            /\ IF next_url # NoUrl
               THEN pc' = "loop" /\ current_url' = next_url
               ELSE pc' = "scraped"
       /\ (/\ pc = "loop" /\ EmptyFragment /\ current_url # NoUrl
           /\ current_url \notin processed_urls /\ BelowMaxPages(page_count)) =>
            pc' = "fetch"]_vars

\* The first page was empty and led to a second page, which has the only
\* chapter record.
C7_Witness ==
    /\ pc = "packaged"
    /\ Len(fetched) = 2 /\ fetch_failed = {}
    /\ Len(chapters) = 1 /\ chapters[1].url = fetched[2]

\* The record of chapters[k] has an entry in the table of contents.
InToc(k) == \E j \in DOMAIN epub_nav_chapters : epub_nav_chapters[j].url = chapters[k].url

\* C8: a chapter record has an entry in the table of contents exactly when
\* its URL has a numeric marker (c, chapter or part followed by digits) and
\* its title reads "Chapter N" or "Part N"; one of the two is not enough.
C8_BoundaryNeedsUrlAndTitle ==
    /\ \A k \in DOMAIN chapters :
          InToc(k) <=> (MatchTocUrl(chapters[k].url) /\ IsChapterTitle(chapters[k].title))
    /\ \A j \in DOMAIN epub_nav_chapters :
          \E k \in DOMAIN chapters :
              /\ chapters[k].url = epub_nav_chapters[j].url
              /\ chapters[k].title = epub_nav_chapters[j].title

\* Three records: a chapter URL with the heading "Page 7" (no entry), a URL
\* without marker with the heading "Chapter 3" (no entry), and a chapter URL
\* with a chapter title (an entry).
C8_Witness ==
    /\ Len(chapters) = 3
    /\ \E k \in DOMAIN chapters :
          /\ MatchTocUrl(chapters[k].url) /\ chapters[k].title = "Page 7" /\ ~ InToc(k)
    /\ \E k \in DOMAIN chapters :
          /\ ~ MatchTocUrl(chapters[k].url) /\ chapters[k].title = "Chapter 3"
          /\ ~ InToc(k)
    /\ \E k \in DOMAIN chapters :
          MatchTocUrl(chapters[k].url) /\ IsChapterTitle(chapters[k].title) /\ InToc(k)

\* The place in chapters of the record that entry j of the table of contents
\* was made for.
RecordOf(j) == CHOOSE k \in DOMAIN chapters : chapters[k].url = epub_nav_chapters[j].url

\* C9: the entries of the table of contents are an order-preserving
\* subsequence of the chapter records, and the file name of each entry is
\* the file name the packager gives to the entry's own record.
C9_NavEntriesNameTheirRecord ==
    pc = "packaged" =>
        /\ \A j \in DOMAIN epub_nav_chapters :
              /\ \E k \in DOMAIN chapters : chapters[k].url = epub_nav_chapters[j].url
              /\ epub_nav_chapters[j].file_name = epub_items[RecordOf(j)].file_name
              /\ epub_nav_chapters[j].title = epub_items[RecordOf(j)].title
        /\ \A i, j \in DOMAIN epub_nav_chapters : i < j => RecordOf(i) < RecordOf(j)
        /\ Len(epub_items) = Len(chapters)

\* Two entries with the same title around a page that was skipped.
C9_Witness ==
    /\ pc = "packaged"
    /\ Len(fetched) = 3 /\ Len(chapters) = 2 /\ Len(epub_nav_chapters) = 2
    /\ fetched[2] \notin {chapters[k].url : k \in DOMAIN chapters}
    /\ epub_nav_chapters[1].title = epub_nav_chapters[2].title
    /\ epub_nav_chapters[2].file_name = ChapFileName(2)

\* The hrefs the links of record i have when every same-site link to a
\* crawled page is rewritten to that page's file and every other same-site
\* link is unwrapped.
RECURSIVE RewrittenHrefs(_, _)
RewrittenHrefs(i, l) ==
    IF l > Len(chapters[i].links) THEN <<>>
    ELSE LET href     == chapters[i].links[l]
             full_url == UrlJoin(chapters[i].url, href)
             found    == FoundChapter(full_url, chapters)
         IN  (IF SkipsLink(href, GetBaseUrl(start_url))
                 \/ ~ BaseUrlIn(GetBaseUrl(start_url), full_url)
              THEN <<href>>
              ELSE IF found # 0 THEN <<ChapHref(found)>> ELSE <<>>)
             \o RewrittenHrefs(i, l + 1)

\* C10: in the packaged book every same-site link of a chapter to a crawled
\* page, crawled before or after the chapter, points to that page's file,
\* and the same-site links to pages that were not crawled are unwrapped.
C10_LinksToCrawledPagesRewritten ==
    pc = "packaged" =>
        \A i \in DOMAIN chapters :
            LinkHrefs(chapters[i].content) = RewrittenHrefs(i, 1)

\* The URLs that are keys of a resource table.
Keys(resource_map) == {e[1] : e \in resource_map}

\* The calls of _download_resource that stored url.
StoredAt(url) ==
    {j \in DOMAIN resource_log :
        resource_log[j].url = url /\ resource_log[j].outcome = "stored"}

\* C11: a resource table has at most one entry for a URL; a file is stored
\* once for every entry and a URL is stored by at most one request; every
\* request for a URL that is stored returns the stored path without another
\* download; and an entry that is stored stays as it is.
C11_ResourcesDeduplicated ==
    /\ [](/\ \A e, f \in image_files \cup font_files : e[1] = f[1] => e = f
          /\ Cardinality(temp_files) = Cardinality(image_files \cup font_files)
          /\ \A k \in DOMAIN resource_log :
                /\ Cardinality(StoredAt(resource_log[k].url)) <= 1
                /\ (\E j \in StoredAt(resource_log[k].url) : j < k) =>
                      /\ resource_log[k].outcome = "known"
                      /\ \A j \in StoredAt(resource_log[k].url) :
                            resource_log[k].path = resource_log[j].path
                /\ resource_log[k].outcome # "failed" =>
                      <<resource_log[k].url, resource_log[k].path>>
                          \in image_files \cup font_files)
    /\ [][image_files \subseteq image_files' /\ font_files \subseteq font_files']_vars

\* The srcs of the images of a fragment, in document order.
ImgSrcs(content) ==
    [k \in DOMAIN ImgPaths(content) |-> NodeAt(content, ImgPaths(content)[k]).src]

\* The same image on two pages: one entry, one file, the second request
\* answered from the table, and both chapters hold the stored path.
C11_Witness ==
    /\ Len(chapters) >= 2
    /\ chapters[1].imgs = <<"/img/a.png">> /\ chapters[2].imgs = <<"/img/a.png">>
    /\ image_files = {<<"/img/a.png", "images/a.png">>}
    /\ temp_files = {"a.png"}
    /\ Len(resource_log) = 2
    /\ resource_log[1].outcome = "stored" /\ resource_log[2].outcome = "known"
    /\ ImgSrcs(chapters[1].content) = <<"images/a.png">>
    /\ ImgSrcs(chapters[2].content) = <<"images/a.png">>

\* C12: in debug mode no more than three pages are fetched, the pages
\* skipped for empty content and the failed fetches counted; with three
\* pages fetched the loop ends without another fetch, whatever next URL was
\* found.
C12_PageCeiling ==
    /\ [](/\ page_count = Len(fetched) + (IF pc = "fetch" THEN 1 ELSE 0)
          /\ debug_mode => page_count <= debug_max_pages)
    /\ [][(debug_mode /\ Len(fetched) >= debug_max_pages) =>
             /\ fetched' = fetched
             /\ pc = "advance" /\ chapter_data => pc' = "scraped"
             /\ pc = "loop" => pc' = "scraped"]_vars

\* Three pages fetched in debug mode, one of them skipped, and a next URL
\* that was never visited: the run is over.
C12_Witness ==
    /\ debug_mode /\ pc = "packaged"
    /\ Len(fetched) = debug_max_pages /\ Len(chapters) = debug_max_pages - 1
    /\ fetch_failed = {}
    /\ next_url # NoUrl /\ next_url \notin processed_urls

NewRequests == SubSeq(resource_log', Len(resource_log) + 1, Len(resource_log'))

\* The style chunks of the first page that lead to a request, in order.
CssRequestSeq ==
    IF page_count = 1
    THEN SelectSeq([i \in DOMAIN StyleChunks(soup) |-> i],
                   LAMBDA i : i \in CssRequests(soup))
    ELSE <<>>

\* The requests of the step made for the images of the new record.
ImgRequests == SubSeq(NewRequests, Len(CssRequestSeq) + 1, Len(NewRequests))

\* C14: a failed download removes the img it was made for and nothing else
\* of the page, leaves the url() of the style sheet it was made for as it
\* was, adds no entry to a resource table, and the page gets its chapter
\* record and the loop goes on as after any page.
C14_FailedDownloadIsLocal ==
    /\ [](Keys(image_files \cup font_files)
            = {resource_log[k].url : k \in {j \in DOMAIN resource_log :
                                               resource_log[j].outcome = "stored"}})
    /\ [][pc = "process" =>
            /\ pc' = "advance"
            /\ ~ EmptyFragment =>
                  /\ Len(chapters') = Len(chapters) + 1
                  /\ chapter_data'
                  /\ Len(ImgRequests) = Len(chapters'[Len(chapters')].imgs)
                  /\ ImgSrcs(chapters'[Len(chapters')].content)
                        = [k \in DOMAIN SelectSeq(ImgRequests,
                                            LAMBDA r : r.outcome # "failed") |->
                              SelectSeq(ImgRequests,
                                        LAMBDA r : r.outcome # "failed")[k].path]
                  /\ GetText(chapters'[Len(chapters')].content)
                        = GetText(RestructuredOf[soup])
            /\ next_url' = FindNextPageUrl(soup, current_url, GetBaseUrl(start_url))
            /\ \A k \in DOMAIN CssRequestSeq :
                  css_content'[1 + CssRequestSeq[k]] =
                      IF NewRequests[k].outcome = "failed"
                      THEN OriginalCss(StyleChunks(soup)[CssRequestSeq[k]])
                      ELSE RewrittenCss(NewRequests[k].path)]_vars

\* The image of the style sheet and the image of the first page both failed
\* and the font was stored: the first record has no img, the style sheet
\* has the image's url() as it was, and the second page was processed.
C14_Witness ==
    /\ Len(chapters) >= 2
    /\ chapters[1].imgs = <<"/img/a.png">>
    /\ ImgSrcs(chapters[1].content) = <<>>
    /\ image_files = {}
    /\ font_files = {<<"/fonts/f.woff", "fonts/f.woff">>}
    /\ \E i \in DOMAIN css_content : css_content[i] = "url(/img/a.png)"
    /\ \E i \in DOMAIN css_content : css_content[i] = "url(../fonts/f.woff)"
    /\ Len(resource_log) = 3

\* C16: the run ends, and the loop fetches only a URL that was not visited
\* before, which it adds to the visited set.
C16_CrawlTerminates ==
    /\ <>(pc \in {"packaged", "failed"})
    /\ [][(pc = "loop" /\ pc' = "fetch") =>
             /\ current_url \notin processed_urls
             /\ processed_urls' = processed_urls \cup {current_url}
             /\ processed_urls' \subseteq crawl_urls]_vars

\* Every URL of the site was fetched and the last page led back to a
\* visited one: the run is over without a page ceiling.
C16_Witness ==
    /\ ~ debug_mode /\ pc = "packaged"
    /\ processed_urls = crawl_urls
    /\ Len(fetched) = Cardinality(crawl_urls)
    /\ next_url \in processed_urls /\ next_url = current_url

\* The only child of the wrapper's source is a paragraph with text.
OnlyChildIsParagraph ==
    /\ Len(wrap_source.kids) = 1
    /\ wrap_source.kids[1].name = "p"
    /\ GetText(wrap_source.kids[1]) # <<>>

\* C15: for a source whose only child is a paragraph with text the wrapper
\* appends that paragraph and nothing else, as it is and not inside another
\* paragraph, and wrapping the result again gives the same children.
C15_WrapperKeepsParagraph ==
    OnlyChildIsParagraph =>
        /\ wrap_pc \in {"wrapped", "done"} => wrap_target = wrap_source.kids
        /\ wrap_pc = "done" => wrap_again = wrap_target

C15_Witness ==
    /\ wrap_pc = "done"
    /\ OnlyChildIsParagraph
    /\ wrap_again = <<Tag("p", <<>>, <<Text("text")>>)>>

\* Child i of the restructurer's input is a bilingual row; it starts a run;
\* the length of the run that starts at i.
IsBilingual(i) == is_bilingual_row_tag(restr_in.kids[i])
StartsRun(i) == IsBilingual(i) /\ (i = 1 \/ ~ IsBilingual(i - 1))
RunLength(i) ==
    Cardinality({j \in i..Len(restr_in.kids) : \A k \in i..j : IsBilingual(k)})

\* The place in the output of what child i of the input gives: one place
\* for every child that is no bilingual row and one for every run.
OutputPlace(i) ==
    Cardinality({j \in 1..i : ~ IsBilingual(j) \/ StartsRun(j)})

\* C17: the children of the restructured fragment are the children of the
\* input in their order, with one table for every maximal run of
\* consecutive bilingual rows (of whatever length, the last run too), the
\* table holding one tr for every row of the run, and with every other
\* child as it was.
C17_OneTablePerRun ==
    restr_pc = "done" =>
        /\ Len(restr_out.kids) = OutputPlace(Len(restr_in.kids))
        /\ \A i \in DOMAIN restr_in.kids :
              /\ ~ IsBilingual(i) => restr_out.kids[OutputPlace(i)] = restr_in.kids[i]
              /\ StartsRun(i) =>
                    /\ restr_out.kids[OutputPlace(i)].name = "table"
                    /\ Len(restr_out.kids[OutputPlace(i)].kids) = RunLength(i)
                    /\ \A k \in DOMAIN restr_out.kids[OutputPlace(i)].kids :
                          restr_out.kids[OutputPlace(i)].kids[k].name = "tr"

\* A run of two rows, then a paragraph, then a run of one row that ends the
\* input: two tables around the paragraph.
C17_Witness ==
    /\ restr_pc = "done"
    /\ Len(restr_in.kids) = 4
    /\ IsBilingual(1) /\ IsBilingual(2) /\ ~ IsBilingual(3) /\ IsBilingual(4)
    /\ Len(restr_out.kids) = 3
    /\ restr_out.kids[1].name = "table" /\ Len(restr_out.kids[1].kids) = 2
    /\ restr_out.kids[2] = restr_in.kids[3]
    /\ restr_out.kids[3].name = "table" /\ Len(restr_out.kids[3].kids) = 1

\* Child i of the restructurer's input is a div that is no bilingual row and
\* has a bilingual row among its own children.
HoldsBilingualRow(i) ==
    /\ restr_in.kids[i].name = "div"
    /\ ~ IsBilingual(i)
    /\ \E k \in DOMAIN restr_in.kids[i].kids :
          is_bilingual_row_tag(restr_in.kids[i].kids[k])

\* C18: a child of the fragment that is a div and no bilingual row is
\* restructured itself: the bilingual rows among its children are folded
\* into a table inside it.
C18_NestedDivRestructured ==
    restr_pc = "done" =>
        \A i \in DOMAIN restr_in.kids :
            HoldsBilingualRow(i) =>
                /\ restr_out.kids[OutputPlace(i)].name = "div"
                /\ \E k \in DOMAIN restr_out.kids[OutputPlace(i)].kids :
                      restr_out.kids[OutputPlace(i)].kids[k].name = "table"

\* C19: a link returned by the first tier leads to the origin (scheme and
\* host) of the current page, and to a URL that differs from the current
\* one in path or query: a difference in the fragment alone is not enough.
C19_Tier1SameOrigin ==
    (loc_pc = "done" /\ Tier1Links # {}) =>
        /\ loc_result.origin = loc_url.origin
        /\ loc_result # loc_url
        /\ ~ (Path(loc_result) = Path(loc_url) /\ loc_result.query = loc_url.query)

\* The links of the locator's page that lead to this site, to a path with
\* the current prefix and the current marker keyword with value N+1.
SameMarkerSuccessors ==
    {i \in SuccessorLinks : LocTarget(i).kw = loc_url.kw}

\* C20: when the first tier yields nothing on a page whose path holds a
\* marker, the locator returns the target of the first link whose path has
\* the same prefix and the same marker keyword with value N+1, and none when
\* the page has no such link.
C20_Tier2SameMarker ==
    (loc_pc = "done" /\ Tier1Links = {} /\ MatchChapter(loc_url)) =>
        loc_result = IF SameMarkerSuccessors = {}
                     THEN NoUrl
                     ELSE LocTarget(FirstIndex(SameMarkerSuccessors))

\* Child i of the wrapper's source is dropped (white space or a comment),
\* stands alone in the target (a block, an image, a link around an image),
\* or goes into a paragraph.
WrapDropped(i) ==
    \/ wrap_source.kids[i].name = "#text" /\ wrap_source.kids[i].text = WS
    \/ wrap_source.kids[i].name = "#comment"
WrapAlone(i) ==
    /\ ~ WrapDropped(i)
    /\ \/ wrap_source.kids[i].name \in
             {"p", "div", "h1", "h2", "h3", "h4", "h5", "h6", "ul", "ol",
              "blockquote", "pre"}
       \/ wrap_source.kids[i].name = "img"
       \/ /\ wrap_source.kids[i].name = "a"
          /\ wrap_source.kids[i].href # NoHref
          /\ FindImg(wrap_source.kids[i])
WrapInline(i) == ~ WrapDropped(i) /\ ~ WrapAlone(i)

\* Child i is the first of a maximal run of children that go into a
\* paragraph: no child that is kept and goes into a paragraph comes between
\* it and the child that stands alone before it, or the start.
WrapStartsRun(i) ==
    /\ WrapInline(i)
    /\ \A j \in 1..(i - 1) : WrapInline(j) => \E k \in (j + 1)..(i - 1) : WrapAlone(k)

\* The children of the run that starts at i, in their order.
WrapRun(i) ==
    LET places == [j \in DOMAIN wrap_source.kids |-> j]
        mine   == SelectSeq(places,
                            LAMBDA j : /\ j >= i /\ WrapInline(j)
                                       /\ \A k \in i..j : ~ WrapAlone(k))
    IN  [n \in DOMAIN mine |-> wrap_source.kids[mine[n]]]

\* The run that starts at i is the last thing of the source and has no text.
WrapRunIsLeftOut(i) ==
    /\ \A j \in i..Len(wrap_source.kids) : ~ WrapAlone(j)
    /\ GetText(Tag("p", <<>>, WrapRun(i))) = <<>>

\* The place in the target of what child i gives: one place for every child
\* that stands alone and one for every run.
WrapPlace(i) == Cardinality({j \in 1..i : WrapAlone(j) \/ WrapStartsRun(j)})

\* C21: the target holds, in the order of the source, every child that
\* stands alone (a div with its own children wrapped in the same way) and
\* one new paragraph for every maximal run of the other kept children,
\* holding exactly the children of the run; white space and comments are in
\* no paragraph; and the run that ends the source is left out when it has
\* no text.
C21_WrapperKeepsOrder ==
    wrap_pc \in {"wrapped", "done"} =>
        /\ Len(wrap_target) =
              WrapPlace(Len(wrap_source.kids))
              - Cardinality({i \in DOMAIN wrap_source.kids :
                                WrapStartsRun(i) /\ WrapRunIsLeftOut(i)})
        /\ \A i \in DOMAIN wrap_source.kids :
              /\ (WrapAlone(i) /\ wrap_source.kids[i].name # "div") =>
                    wrap_target[WrapPlace(i)] = wrap_source.kids[i]
              /\ (WrapAlone(i) /\ wrap_source.kids[i].name = "div") =>
                    wrap_target[WrapPlace(i)] =
                        [wrap_source.kids[i] EXCEPT
                            !.kids = WrapContentInParagraph(wrap_source.kids[i])]
              /\ (WrapStartsRun(i) /\ ~ WrapRunIsLeftOut(i)) =>
                    wrap_target[WrapPlace(i)] = Tag("p", <<>>, WrapRun(i))

\* Text and a span, an image, then a span that holds only an image: one
\* paragraph of two children, the image, and nothing for the last span.
C21_Witness ==
    /\ wrap_pc = "wrapped"
    /\ wrap_source.kids = <<Text("a"), Tag("span", <<>>, <<Text("b")>>),
                            Img("/img/a.png"),
                            Tag("span", <<>>, <<Img("/img/a.png")>>)>>
    /\ wrap_target = <<Tag("p", <<>>, <<Text("a"), Tag("span", <<>>, <<Text("b")>>)>>),
                       Img("/img/a.png")>>

\* The fragment the slicer returns.
SliceFragment == FinalContentSoup(slice_soup, slice_acc, slice_removed)

\* n is a paragraph, div, span or heading with no text, no image and no
\* link with an href in it.
IsEmptyHolder(n) ==
    /\ n.name \in {"p", "div", "span", "h1", "h2", "h3", "h4", "h5", "h6"}
    /\ GetText(n) = <<>>
    /\ \A d \in Sub(n) : d.name # "img" /\ (d.name = "a" => d.href = NoHref)

\* C22: once the cleanup is done nothing in the fragment is a script, style,
\* form, iframe, nav, header, footer or noscript element, nothing has a
\* denylisted class or the pagination id, and nothing is a paragraph, div,
\* span or heading without text, image and link: the single pass over the
\* empty elements leaves no empty element behind.
C22_CleanFragment ==
    slice_pc = "done" =>
        \A d \in Sub(SliceFragment) :
            /\ d.name \notin {"script", "style", "form", "iframe", "nav", "header",
                              "footer", "noscript"}
            /\ \A c \in {"social-share-buttons", "navbar", "breadcrumb", "menu",
                         "prev-next-links"} : ~ HasClass(d, c)
            /\ "id=pagination" \notin d.attrs
            /\ ~ IsEmptyHolder(d)

\* The row with a script, a nav in a div, an empty span in a paragraph, a
\* pagination list, a menu and a link in a div: the div with the link and
\* the text are all that is left of it.
C22_Witness ==
    /\ slice_pc = "done"
    /\ slice_removed # {}
    /\ \E d \in Sub(slice_soup) :
          \E e \in Sub(d) : e.name = "nav" /\ \E f \in Sub(d) : f.name = "p" /\ IsEmptyHolder(f)
    /\ SliceFragment.kids =
          <<Tag("div", <<"row">>,
                <<Tag("div", <<>>, <<A(Href("rel", BookUrl("c", 2)), <<>>, <<>>)>>),
                  Text("body")>>)>>

\* The row at path q of the slicer's page is due in the fragment: it comes
\* strictly before the end marker, or the page has no end marker; it is not
\* chrome; and it has text or an image.
RowIsDue(q) ==
    /\ \/ end_content_marker(slice_soup) = NoPath
       \/ DocIndex(slice_soup, q) < DocIndex(slice_soup, end_content_marker(slice_soup))
    /\ ~ \E d \in Sub(NodeAt(slice_soup, q)) :
            \/ HasClass(d, "breadcrumb")
            \/ d.name = "nav" /\ HasClass(d, "navbar")
    /\ \/ GetText(NodeAt(slice_soup, q)) # <<>>
       \/ \E d \in Sub(NodeAt(slice_soup, q)) : d.name = "img"

\* C23: once the row loop is over, every row that is due is among the rows
\* appended, once, and the rows appended are in document order; a row before
\* the end marker that has the marker's name, attributes and contents does
\* not end the loop.
C23_SlicerComplete ==
    slice_pc \in {"collected", "done"} =>
        /\ \A q \in Range(all_rows(slice_soup)) :
              RowIsDue(q) => Cardinality({i \in DOMAIN slice_acc : slice_acc[i] = q}) = 1
        /\ \A i, j \in DOMAIN slice_acc :
              i < j => DocIndex(slice_soup, slice_acc[i]) < DocIndex(slice_soup, slice_acc[j])

\* C24: the restructured fragment has the text of its input: the strings
\* that are not white space, in document order, are the same, whatever the
\* bilingual rows hold beside their two columns.
C24_NoTextLost ==
    restr_pc = "done" => GetText(restr_out) = GetText(restr_in)

\* The img elements of a tree, in document order.
Images(tree) ==
    LET at == SelectSeq(Descendants(tree, <<>>),
                        LAMBDA q : NodeAt(tree, q).name = "img")
    IN  [k \in DOMAIN at |-> NodeAt(tree, at[k])]

\* The first row of the run that bilingual row i of the input is in, and the
\* table cell of the output made for column c of row i.
RunStart(i) == CHOOSE j \in 1..i : StartsRun(j) /\ \A k \in j..i : IsBilingual(k)
CellOf(i, c) == restr_out.kids[OutputPlace(RunStart(i))].kids[i - RunStart(i) + 1].kids[c]

\* C25: the images of each column of a bilingual row are the images of the
\* table cell made for the column, wherever in the column they are.
C25_ImagesKept ==
    restr_pc = "done" =>
        \A i \in DOMAIN restr_in.kids :
            IsBilingual(i) =>
                \A c \in 1..2 : Images(CellOf(i, c)) = Images(Cols(restr_in.kids[i])[c])

\* The content of chapters[k] has no heading, so that its title comes from
\* its URL or from the page count.
NoHeading(k) ==
    \A d \in Sub(chapters[k].content) : d.name \notin {"h1", "h2", "h3"}

\* C26: a record without heading whose URL has a numeric marker (c, chapter,
\* chapitre, part or partie followed by N) has the title "Chapter N" and an
\* entry in the table of contents.
C26_UrlTitledPagesAreBoundaries ==
    \A k \in DOMAIN chapters :
        (/\ NoHeading(k)
         /\ chapters[k].url.kw \in {"c", "chapter", "chapitre", "part", "partie"}
         /\ chapters[k].url.num >= 0)
            => /\ chapters[k].title = "Chapter " \o ToString(chapters[k].url.num)
               /\ InToc(k)

=============================================================================
